---- MODULE Spec2Model ----
(***************************************************************************)
(* A model of cnn-test.py: the network builder                             *)
(* (define_network_architecture and its two towers), the losses and        *)
(* metrics, the training driver (train_model, with the EarlyStopping       *)
(* callback it installs) and the experiment grid that calls both.          *)
(*                                                                         *)
(* Tensors are modelled by their shapes (without the batch axis) where     *)
(* only the layer graph matters, and by integer data where the losses and  *)
(* metrics are computed.  Loss values are integers in units of 1e-7, so    *)
(* that min_delta = 1e-6 is DeltaUnits = 10.                               *)
(***************************************************************************)
EXTENDS Integers, Sequences, FiniteSets, TLC

VARIABLES
    grid,               \* the four lists of the experiment grid (lines 172-175)
    idx,                \* positions of the four nested for loops
    pc,                 \* where the script is
    cfg,                \* the loop variables topology, use_headpose, landmark_dim, loss_function
    save_name,          \* line 177
    use_early_stopping, \* line 193
    model,              \* the model returned by define_network_architecture
    calls,              \* the calls of the builder and the driver, in order
    targ,               \* the arguments of the running train_model call
    cb,                 \* the EarlyStopping callback of line 132
    sched,              \* the validation-loss trajectory of the running fit
    history,            \* history['val_loss'] of the running fit
    score,              \* what model.evaluate returned (line 146)
    written,            \* the files written by the running train_model call
    fed,                \* the named inputs handed to fit and to evaluate
    num,                \* losses and metrics applied to data
    nm                  \* save names and file names of two configurations

vars == <<grid, idx, pc, cfg, save_name, use_early_stopping, model, calls,
          targ, cb, sched, history, score, written, fed, num, nm>>

gridVars == <<grid, idx, cfg, save_name, use_early_stopping, model, calls>>
trainVars == <<targ, cb, sched, history, score, written, fed>>

None == [none |-> TRUE]

----------------------------------------------------------------------------
(* Program constants *)

NumLandmarks == 28
HeadPoseDim == 9
DenseUnits == 64
Patience == 20
Epochs == 70
DefaultEpochs == 30
DeltaUnits == 10
AccThreshold == 5

Topologies == <<"non_spatial", "spatial", "double_tower">>
LossNames == <<"mean_squared_error", "mean_absolute_error", "p_norm_loss", "landmark_loss">>

----------------------------------------------------------------------------
(* Sequence helpers *)

RECURSIVE SumSeq(_)
SumSeq(s) == IF s = <<>> THEN 0 ELSE Head(s) + SumSeq(Tail(s))

RECURSIVE ProdSeq(_)
ProdSeq(s) == IF s = <<>> THEN 1 ELSE Head(s) * ProdSeq(Tail(s))

Abs(n) == IF n < 0 THEN -n ELSE n

Range(s) == {s[i] : i \in DOMAIN s}

----------------------------------------------------------------------------
(* Layers, by output shape *)

ConvOut(n, k, padding) == IF padding = "same" THEN n ELSE n - k + 1

\* Conv2D(filters, (k, k), padding=..., data_format=...), stride 1
Conv2D(filters, k, padding, data_format, shape) ==
    IF data_format = "channels_last"
    THEN <<ConvOut(shape[1], k, padding), ConvOut(shape[2], k, padding), filters>>
    ELSE <<filters, ConvOut(shape[2], k, padding), ConvOut(shape[3], k, padding)>>

\* MaxPooling2D((p, p), strides=(s, s)): padding 'valid', and the framework's
\* default data_format (channels_last), since none is passed
MaxPooling2D(p, s, shape) ==
    <<(shape[1] - p) \div s + 1, (shape[2] - p) \div s + 1, shape[3]>>

Flatten(shape) == <<ProdSeq(shape)>>

Dense(units, shape) == <<units>>

InputImgShape == <<3, 120, 80>>

get_non_spatial_tower(input_img) ==
    LET df == "channels_last"
        t1 == Conv2D(64, 3, "same", df, input_img)
        t2 == MaxPooling2D(2, 1, t1)
        t3 == Conv2D(64, 3, "same", df, t2)
        t4 == MaxPooling2D(2, 1, t3)
        t5 == Conv2D(16, 3, "same", df, t4)
        t6 == Flatten(t5)
    IN  Dense(DenseUnits, t6)

get_spatial_tower(input_img) ==
    LET df == "channels_first"
        t1 == Conv2D(16, 3, "valid", df, input_img)
        t2 == MaxPooling2D(2, 2, t1)
        t3 == Conv2D(16, 3, "valid", df, t2)
        t4 == MaxPooling2D(3, 3, t3)
        t5 == Flatten(t4)
    IN  Dense(DenseUnits, t5)

\* keras.layers.concatenate(parts, axis=1) of rank-1 tensors
Concatenate(parts) ==
    [parts |-> parts, shape |-> <<SumSeq([i \in DOMAIN parts |-> parts[i].shape[1]])>>]

Part(name, shape) == [src |-> name, shape |-> shape]

\* lines 62-69
ModelInputs(use_headpose) ==
    LET inputs == <<[name |-> "input_img", shape |-> InputImgShape]>>
    IN  IF use_headpose
        THEN Append(inputs, [name |-> "head_pose", shape |-> <<HeadPoseDim>>])
        ELSE inputs

\* a variant concatenating the spatial tower first
TowersSwapped(topology, use_headpose) ==
    LET ns == Part("non_spatial", get_non_spatial_tower(InputImgShape))
        sp == Part("spatial", get_spatial_tower(InputImgShape))
        hp == Part("head_pose", <<HeadPoseDim>>)
    IN  IF topology = "double_tower"
        THEN Concatenate(<<sp, ns>> \o (IF use_headpose THEN <<hp>> ELSE <<>>))
        ELSE Concatenate(<<IF topology = "non_spatial" THEN ns ELSE sp>>
                         \o (IF use_headpose THEN <<hp>> ELSE <<>>))

\* lines 72-92: the vector fed to the final dense layers
Towers(topology, use_headpose) ==
    LET non_spatial == Part("non_spatial", get_non_spatial_tower(InputImgShape))
        spatial == Part("spatial", get_spatial_tower(InputImgShape))
        head_pose == Part("head_pose", <<HeadPoseDim>>)
    IN  IF topology = "double_tower"
        THEN IF use_headpose
             THEN Concatenate(<<non_spatial, spatial, head_pose>>)
             ELSE Concatenate(<<non_spatial, spatial>>)
        ELSE LET x == IF topology = "non_spatial" THEN non_spatial
                      ELSE IF topology = "spatial" THEN spatial
                      ELSE None   \* x stays unbound for any other flag
             IN  IF use_headpose
                 THEN Concatenate(<<x, head_pose>>)
                 ELSE [parts |-> <<x>>, shape |-> x.shape]

\* a variant sized for 2D landmarks whatever landmark_dim is
OutputLayerAlways2D(landmark_dim, x) == Dense(NumLandmarks * 2, x)

\* line 99
OutputLayer(landmark_dim, x) == Dense(NumLandmarks * landmark_dim, x)

\* a variant with the two custom losses exchanged
ParseLossSwapped(loss_function) ==
    IF loss_function = "p_norm_loss"
    THEN [custom |-> TRUE, fn |-> "landmark_loss"]
    ELSE IF loss_function = "landmark_loss"
         THEN [custom |-> TRUE, fn |-> "p_norm_loss"]
         ELSE [custom |-> FALSE, fn |-> loss_function]

\* lines 105-109: the loss handed to compile
ParseLoss(loss_function) ==
    IF loss_function = "p_norm_loss"
    THEN [custom |-> TRUE, fn |-> "p_norm_loss"]
    ELSE IF loss_function = "landmark_loss"
         THEN [custom |-> TRUE, fn |-> "landmark_loss"]
         ELSE [custom |-> FALSE, fn |-> loss_function]

\* lines 111-114
CompileMetrics(landmark_dim) ==
    IF landmark_dim = 2 THEN <<"landmark_accuracy">> ELSE <<>>

\* lines 58-120
define_network_architecture(landmark_dim, use_headpose, topology, loss_function) ==
    LET inputs == ModelInputs(use_headpose)
        x == Towers(topology, use_headpose)
        d == Dense(DenseUnits, x.shape)
        output == OutputLayer(landmark_dim, d)
    IN  [args |-> [topology |-> topology, use_headpose |-> use_headpose,
                   landmark_dim |-> landmark_dim, loss_function |-> loss_function],
         inputs |-> inputs,
         concat |-> x.parts,
         concat_shape |-> x.shape,
         outputs |-> <<[name |-> "output", shape |-> output]>>,
         loss |-> [output |-> ParseLoss(loss_function)],
         metrics |-> CompileMetrics(landmark_dim)]

----------------------------------------------------------------------------
(* Formatting: '%s' of a bool, an int, a float and a list of floats *)

Digit == <<"0", "1", "2", "3", "4", "5", "6", "7", "8", "9">>

RECURSIVE IntStr(_)
IntStr(n) == IF n < 10 THEN Digit[n + 1] ELSE IntStr(n \div 10) \o Digit[(n % 10) + 1]

BoolStr(b) == IF b THEN "True" ELSE "False"

RECURSIVE NumDigits(_)
NumDigits(n) == IF n < 10 THEN 1 ELSE 1 + NumDigits(n \div 10)

RECURSIVE Pow10(_)
Pow10(k) == IF k = 0 THEN 1 ELSE 10 * Pow10(k - 1)

\* the k decimal digits of f (zero padded), without trailing zeros
RECURSIVE FracStr(_, _)
FracStr(f, k) ==
    IF f = 0 \/ k = 0 THEN ""
    ELSE Digit[(f \div Pow10(k - 1)) + 1] \o FracStr(f % Pow10(k - 1), k - 1)

\* str() of the float v * 1e-7, v >= 0: repr switches to exponent notation
\* below 1e-4
FloatStr(v) ==
    LET UnitDigits == 7
        one == Pow10(UnitDigits)
    IN  IF v = 0 THEN "0.0"
        ELSE IF v >= Pow10(UnitDigits - 4)
        THEN IntStr(v \div one) \o "." \o
             (IF v % one = 0 THEN "0" ELSE FracStr(v % one, UnitDigits))
        ELSE LET n == NumDigits(v)
                 lead == v \div Pow10(n - 1)
                 rest == v % Pow10(n - 1)
             IN  Digit[lead + 1] \o (IF rest = 0 THEN "" ELSE "." \o FracStr(rest, n - 1))
                 \o "e-0" \o IntStr(UnitDigits - (n - 1))

\* what evaluate returns: a scalar loss, or [loss, metric...] when metrics
\* were compiled in
Scalar(v) == [list |-> FALSE, vals |-> <<v>>]
ListOf(vs) == [list |-> TRUE, vals |-> vs]

RECURSIVE JoinFloats(_)
JoinFloats(vs) ==
    IF Len(vs) = 1 THEN FloatStr(vs[1])
    ELSE FloatStr(vs[1]) \o ", " \o JoinFloats(Tail(vs))

ScoreStr(sc) == IF sc.list THEN "[" \o JoinFloats(sc.vals) \o "]" ELSE FloatStr(sc.vals[1])

\* a variant that leaves the loss function out of the name
SaveNameNoLoss(use_headpose, topology, landmark_dim, loss_function) ==
    "TestNet-Head" \o BoolStr(use_headpose) \o "-" \o topology \o "-"
        \o IntStr(landmark_dim) \o "D"

\* line 177
SaveName(use_headpose, topology, landmark_dim, loss_function) ==
    "TestNet-Head" \o BoolStr(use_headpose) \o "-" \o topology \o "-"
        \o IntStr(landmark_dim) \o "D-" \o loss_function

\* lines 152 and 154
ModelFile(name, sc) == "models/" \o name \o "-" \o ScoreStr(sc) \o ".h5"
HistoryFile(name, sc) == "models/" \o name \o "-" \o ScoreStr(sc) \o ".history"

----------------------------------------------------------------------------
(* The EarlyStopping callback installed at line 132, mode 'auto' on        *)
(* 'val_loss': lower is better, and an epoch improves when it is below the *)
(* best value by more than min_delta.  best = <<>> is the initial +inf.    *)

\* a variant that keeps 1e-6 whatever the flag is
MinDeltaIgnoringFlag(early) == DeltaUnits

\* lines 127-129
MinDelta(early) == IF ~early THEN 0 ELSE DeltaUnits

\* line 132, then on_train_begin
EarlyStopping(monitor, patience, min_delta) ==
    [monitor |-> monitor, patience |-> patience, min_delta |-> min_delta,
     wait |-> 0, best |-> <<>>, stop_training |-> FALSE]

\* a variant with half the patience
InstallCallbackShortPatience(early) ==
    EarlyStopping("val_loss", Patience \div 2, MinDelta(early))

\* line 132
InstallCallback(early) == EarlyStopping("val_loss", Patience, MinDelta(early))

Improved(c, current) == c.best = <<>> \/ current + c.min_delta < c.best[1]

\* on_epoch_end
OnEpochEnd(c, current) ==
    IF Improved(c, current)
    THEN [c EXCEPT !.best = <<current>>, !.wait = 0]
    ELSE [c EXCEPT !.wait = c.wait + 1,
                   !.stop_training = (c.wait + 1 >= c.patience)]

----------------------------------------------------------------------------
(* The validation loss of a fit, epoch by epoch.  A trajectory falls by    *)
(* BigStep per epoch up to epoch `plateau`, then follows its tail (flat,   *)
(* creeping down by CreepStep per epoch, or rising by BigStep per epoch),  *)
(* with one more fall of BigStep at epoch plateau + dip when dip > 0.      *)

StartLoss == 5000
BigStep == 20
CreepStep == 5

PlateauSet == {1, 30, 49, 50, 51}
Tails == {"flat", "creep", "rise"}
DipSet == {0, 10, 20}
AccVals == {2500000, 10000000}

Schedules == [plateau : PlateauSet, tail : Tails, dip : DipSet]

ValLoss(s, e) ==
    LET fall == BigStep * (IF e < s.plateau THEN e ELSE s.plateau)
        after == IF e > s.plateau THEN e - s.plateau ELSE 0
        tail == CASE s.tail = "flat" -> 0
                  [] s.tail = "creep" -> -(CreepStep * after)
                  [] s.tail = "rise" -> BigStep * after
        dip == IF s.dip > 0 /\ e >= s.plateau + s.dip THEN BigStep ELSE 0
    IN  StartLoss - fall + tail - dip

----------------------------------------------------------------------------
(* The experiment grid, lines 171-200 *)

GridSource ==
    [topology |-> <<"non_spatial">>,
     use_headpose |-> <<TRUE>>,
     landmark_dim |-> <<2>>,
     loss_function |-> <<"mean_squared_error", "landmark_loss", "mean_absolute_error">>]

\* the lists with every value the builder distinguishes
GridFull ==
    [topology |-> Topologies,
     use_headpose |-> <<TRUE, FALSE>>,
     landmark_dim |-> <<2, 3>>,
     loss_function |-> LossNames]

Grids == {GridSource, GridFull}

FirstIdx == [t |-> 1, h |-> 1, d |-> 1, l |-> 1]

\* a variant stepping the outermost list fastest
NextIdxOuterFirst(g, i) ==
    IF i.t < Len(g.topology) THEN [i EXCEPT !.t = i.t + 1]
    ELSE IF i.h < Len(g.use_headpose) THEN [i EXCEPT !.t = 1, !.h = i.h + 1]
    ELSE IF i.d < Len(g.landmark_dim) THEN [i EXCEPT !.t = 1, !.h = 1, !.d = i.d + 1]
    ELSE [t |-> Len(g.topology) + 1, h |-> 1, d |-> 1, l |-> i.l + 1]

\* the next position of the four nested for loops, innermost first
NextIdx(g, i) ==
    IF i.l < Len(g.loss_function) THEN [i EXCEPT !.l = i.l + 1]
    ELSE IF i.d < Len(g.landmark_dim) THEN [i EXCEPT !.l = 1, !.d = i.d + 1]
    ELSE IF i.h < Len(g.use_headpose) THEN [i EXCEPT !.l = 1, !.d = 1, !.h = i.h + 1]
    ELSE [t |-> i.t + 1, h |-> 1, d |-> 1, l |-> 1]

CfgAt(g, i) ==
    [topology |-> g.topology[i.t], use_headpose |-> g.use_headpose[i.h],
     landmark_dim |-> g.landmark_dim[i.d], loss_function |-> g.loss_function[i.l]]

\* lines 172-177: the loop heads and the save name
GridIter ==
    /\ pc = "loop"
    /\ idx.t <= Len(grid.topology)
    /\ cfg' = CfgAt(grid, idx)
    /\ save_name' = SaveName(cfg'.use_headpose, cfg'.topology, cfg'.landmark_dim,
                             cfg'.loss_function)
    /\ pc' = "define"
    /\ UNCHANGED <<grid, idx, use_early_stopping, model, calls, trainVars, num, nm>>

\* line 180
BuildModel ==
    /\ pc = "define"
    /\ model' = define_network_architecture(cfg.landmark_dim, cfg.use_headpose,
                                            cfg.topology, cfg.loss_function)
    /\ calls' = Append(calls, [fn |-> "define_network_architecture", ev |-> "call",
                               args |-> cfg])
    /\ pc' = "call_train"
    /\ UNCHANGED <<grid, idx, cfg, save_name, use_early_stopping, trainVars, num, nm>>

\* lines 184-200: the targets, the flag, and the call of train_model
CallTrain ==
    /\ pc = "call_train"
    /\ use_early_stopping' = TRUE
    /\ targ' = [model |-> model,
                landmarks |-> IF cfg.landmark_dim = 2 THEN "ldmks_2d" ELSE "ldmks_3d",
                batch_size |-> 64, epochs |-> Epochs, save_name |-> save_name,
                use_early_stopping |-> use_early_stopping']
    /\ calls' = Append(calls, [fn |-> "train_model", ev |-> "call",
                               args |-> targ'.model.args])
    /\ pc' = "train_begin"
    /\ UNCHANGED <<grid, idx, cfg, save_name, model, cb, sched, history, score,
                   written, fed, num, nm>>

\* the for loops step on when train_model has returned
ForNext ==
    /\ pc = "next"
    /\ idx' = NextIdx(grid, idx)
    /\ pc' = IF idx'.t <= Len(grid.topology) THEN "loop" ELSE "done"
    /\ UNCHANGED <<grid, cfg, save_name, use_early_stopping, model, calls,
                   trainVars, num, nm>>

----------------------------------------------------------------------------
(* train_model, lines 122-157 *)

\* the keys of the dicts of lines 136, 139 and 146
InputKeysOfModel(m) == {m.inputs[i].name : i \in DOMAIN m.inputs}

InputKeys(m) == {"input_img", "head_pose"}

\* lines 125-143: the callback is built and fit starts
TrainBegin ==
    /\ pc = "train_begin"
    /\ cb' = InstallCallback(targ.use_early_stopping)
    /\ \E s \in Schedules : sched' = s
    /\ history' = <<>>
    /\ fed' = [fit |-> InputKeys(targ.model), validation |-> InputKeys(targ.model),
               evaluate |-> {}]
    /\ score' = None
    /\ written' = <<>>
    /\ pc' = "fit"
    /\ UNCHANGED <<gridVars, targ, num, nm>>

\* one epoch of fit: the validation loss is recorded, then the callback runs;
\* fit returns after the last epoch or when the callback stops training
FitEpoch ==
    /\ pc = "fit"
    /\ Len(history) < targ.epochs
    /\ ~cb.stop_training
    /\ LET current == ValLoss(sched, Len(history) + 1)
       IN  /\ history' = Append(history, current)
           /\ cb' = OnEpochEnd(cb, current)
    /\ pc' = IF cb'.stop_training \/ Len(history') >= targ.epochs
             THEN "evaluate" ELSE "fit"
    /\ UNCHANGED <<gridVars, targ, sched, score, written, fed, num, nm>>

\* line 146: the loss of the trained weights on the validation data, alone
\* or followed by the compiled metrics
EvaluateResult(m, loss, accs) ==
    IF m.metrics = <<>> THEN Scalar(loss) ELSE ListOf(<<loss>> \o accs)

Evaluate ==
    /\ pc = "evaluate"
    /\ \E acc \in AccVals :
          score' = EvaluateResult(targ.model, history[Len(history)],
                                  [i \in DOMAIN targ.model.metrics |-> acc])
    /\ fed' = [fed EXCEPT !.evaluate = InputKeys(targ.model)]
    /\ pc' = "save_model"
    /\ UNCHANGED <<gridVars, targ, cb, sched, history, written, num, nm>>

\* line 152
SaveModel ==
    /\ pc = "save_model"
    /\ written' = Append(written, ModelFile(targ.save_name, score))
    /\ pc' = "save_history"
    /\ UNCHANGED <<gridVars, targ, cb, sched, history, score, fed, num, nm>>

\* lines 154-157
SaveHistory ==
    /\ pc = "save_history"
    /\ written' = Append(written, HistoryFile(targ.save_name, score))
    /\ calls' = Append(calls, [fn |-> "train_model", ev |-> "return",
                               args |-> targ.model.args])
    /\ pc' = "next"
    /\ UNCHANGED <<grid, idx, cfg, save_name, use_early_stopping, model,
                   targ, cb, sched, history, score, fed, num, nm>>

----------------------------------------------------------------------------
(* The script *)

NoCfg == [topology |-> "", use_headpose |-> FALSE, landmark_dim |-> 0,
          loss_function |-> ""]
NoCallback == EarlyStopping("", 0, 0)
NoSchedule == [plateau |-> 0, tail |-> "", dip |-> 0]
NoFed == [fit |-> {}, validation |-> {}, evaluate |-> {}]
NoNum == [step |-> "idle"]
NoNm == [step |-> "idle"]

IdleTrain ==
    /\ cb = NoCallback
    /\ sched = NoSchedule
    /\ history = <<>>
    /\ score = None
    /\ written = <<>>
    /\ fed = NoFed

Init ==
    /\ grid \in Grids
    /\ idx = FirstIdx
    /\ pc = "loop"
    /\ cfg = NoCfg
    /\ save_name = ""
    /\ use_early_stopping = TRUE
    /\ model = None
    /\ calls = <<>>
    /\ targ = None
    /\ IdleTrain
    /\ num = NoNum
    /\ nm = NoNm

Next ==
    \/ GridIter
    \/ BuildModel
    \/ CallTrain
    \/ TrainBegin
    \/ FitEpoch
    \/ Evaluate
    \/ SaveModel
    \/ SaveHistory
    \/ ForNext

Spec == Init /\ [][Next]_vars

----------------------------------------------------------------------------
(* train_model called on its own, with either value of use_early_stopping *)
(* and with the default or the script's number of epochs                  *)

TrainCalls ==
    [model : {define_network_architecture(2, TRUE, "non_spatial", "mean_squared_error"),
              define_network_architecture(3, FALSE, "double_tower", "p_norm_loss")},
     landmarks : {"ldmks_2d"},
     batch_size : {32},
     epochs : {DefaultEpochs, Epochs},
     save_name : {"landmark_unnamed"},
     use_early_stopping : BOOLEAN]

InitTrain ==
    /\ grid = GridSource
    /\ idx = FirstIdx
    /\ pc = "train_begin"
    /\ cfg = NoCfg
    /\ save_name = ""
    /\ use_early_stopping = TRUE
    /\ model = None
    /\ calls = <<>>
    /\ targ \in TrainCalls
    /\ IdleTrain
    /\ num = NoNum
    /\ nm = NoNm

NextTrain ==
    \/ TrainBegin
    \/ FitEpoch
    \/ Evaluate
    \/ SaveModel
    \/ SaveHistory

SpecTrain == InitTrain /\ [][NextTrain]_vars

----------------------------------------------------------------------------
(* Properties of the builder *)

Built == model # None

TowerCount(topology) == IF topology = "double_tower" THEN 2 ELSE 1

\* C1: whatever the topology, use_headpose and loss, the built model has
\* exactly one output, 28 * landmark_dim wide: 56 scalars for 2D landmarks
\* and 84 for 3D.
C1_OutputWidth ==
    Built =>
        /\ Len(model.outputs) = 1
        /\ model.outputs[1].name = "output"
        /\ model.outputs[1].shape = <<28 * model.args.landmark_dim>>
        /\ (model.args.landmark_dim = 2 => model.outputs[1].shape = <<56>>)
        /\ (model.args.landmark_dim = 3 => model.outputs[1].shape = <<84>>)

C1_Witness ==
    /\ Built
    /\ model.args.landmark_dim = 3
    /\ model.args.topology = "double_tower"
    /\ model.outputs[1].shape = <<84>>

ExpectedParts(a) ==
    (IF a.topology = "double_tower" THEN <<"non_spatial", "spatial">>
     ELSE <<a.topology>>)
    \o (IF a.use_headpose THEN <<"head_pose">> ELSE <<>>)

\* C2: the vector fed to the final dense layers is the 64-wide tower
\* outputs in order (non_spatial before spatial for double_tower), followed
\* by the 9-wide head_pose input exactly when use_headpose holds; the model
\* declares a head_pose input exactly when use_headpose holds; the width is
\* 64 * towers + 9 * (1 if use_headpose else 0).
C2_ConcatLayout ==
    Built =>
        LET a == model.args
            want == ExpectedParts(a)
        IN  /\ Len(model.concat) = Len(want)
            /\ \A i \in DOMAIN want :
                  /\ model.concat[i].src = want[i]
                  /\ model.concat[i].shape =
                        IF want[i] = "head_pose" THEN <<9>> ELSE <<64>>
            /\ model.concat_shape =
                  <<64 * TowerCount(a.topology) + (IF a.use_headpose THEN 9 ELSE 0)>>
            /\ ("head_pose" \in InputKeysOfModel(model)) <=> a.use_headpose
            /\ "input_img" \in InputKeysOfModel(model)

C2_Witness ==
    /\ Built
    /\ model.args.topology = "double_tower"
    /\ model.args.use_headpose
    /\ model.concat_shape = <<137>>

----------------------------------------------------------------------------
(* Properties of the driver *)

InTraining == pc \in {"fit", "evaluate", "save_model", "save_history"}
FitReturned == pc \in {"evaluate", "save_model", "save_history"}

RECURSIVE MinOf(_)
MinOf(h) ==
    IF Len(h) = 1 THEN h[1]
    ELSE LET m == MinOf(Tail(h)) IN IF h[1] < m THEN h[1] ELSE m

\* the last Patience epochs of h all failed to go below the lowest earlier
\* validation loss by more than delta
Stalled(h, delta) ==
    /\ Len(h) > Patience
    /\ LET before == MinOf(SubSeq(h, 1, Len(h) - Patience))
       IN  \A i \in (Len(h) - Patience + 1)..Len(h) : h[i] + delta >= before

\* C5 as stated: train_model fits, evaluates, writes the model file and then the
\* history file, nothing being written before evaluation; the files are
\* models/<save_name>-<score>.h5 and models/<save_name>-<score>.history,
\* where score is the test loss returned by evaluate.
C5_FilesNamedByTestLoss ==
    InTraining =>
        LET want == <<"models/" \o targ.save_name \o "-" \o FloatStr(score.vals[1]) \o ".h5",
                      "models/" \o targ.save_name \o "-" \o FloatStr(score.vals[1])
                          \o ".history">>
        IN  /\ (pc \in {"fit", "evaluate"} => written = <<>>)
            /\ (pc = "save_model" => written = <<>> /\ score # None)
            /\ (pc = "save_history" => written = SubSeq(want, 1, 1))
            /\ (written # <<>> => score # None /\ history # <<>>)

C8_FedInputsMatchModel ==
    InTraining =>
        /\ fed.fit = InputKeysOfModel(targ.model)
        /\ fed.validation = InputKeysOfModel(targ.model)
        /\ (FitReturned /\ pc # "evaluate" => fed.evaluate = InputKeysOfModel(targ.model))

\* C10: with use_early_stopping = False the EarlyStopping callback on
\* val_loss is still installed with patience 20; only min_delta is 0
\* instead of 1e-6, and fit still returns before `epochs` epochs once the
\* validation loss has not improved for 20 consecutive epochs.
C10_FlagOnlyChangesDelta ==
    InTraining =>
        /\ cb.monitor = "val_loss"
        /\ cb.patience = 20
        /\ cb.min_delta = (IF targ.use_early_stopping THEN DeltaUnits ELSE 0)
        /\ (~targ.use_early_stopping =>
               /\ (pc = "fit" => ~Stalled(history, 0))
               /\ (FitReturned => Len(history) = targ.epochs \/ Stalled(history, 0)))

C10_Witness ==
    /\ pc = "evaluate"
    /\ ~targ.use_early_stopping
    /\ cb.min_delta = 0
    /\ Len(history) < targ.epochs
    /\ cb.stop_training

----------------------------------------------------------------------------
(* Properties of the grid *)

NumRuns(g) ==
    Len(g.topology) * Len(g.use_headpose) * Len(g.landmark_dim) * Len(g.loss_function)

\* the combination of run r (from 0), the loss function varying fastest
CfgOfRun(g, r) ==
    LET L == Len(g.loss_function)
        D == Len(g.landmark_dim)
        H == Len(g.use_headpose)
    IN  [topology |-> g.topology[(r \div (L * D * H)) + 1],
         use_headpose |-> g.use_headpose[((r \div (L * D)) % H) + 1],
         landmark_dim |-> g.landmark_dim[((r \div L) % D) + 1],
         loss_function |-> g.loss_function[(r % L) + 1]]

ExpectedCall(g, i) ==
    LET r == (i - 1) \div 3
        k == (i - 1) % 3
    IN  [fn |-> IF k = 0 THEN "define_network_architecture" ELSE "train_model",
         ev |-> IF k = 2 THEN "return" ELSE "call",
         args |-> CfgOfRun(g, r)]

\* C7: the builder and the driver are called once per combination, in
\* nested order with the loss function varying fastest; each builder call
\* is followed by the driver call on the model built for the same
\* combination, which returns before the next builder call; the number of
\* runs is the product of the list lengths.
C7_GridOrder ==
    /\ Len(calls) <= 3 * NumRuns(grid)
    /\ (calls # <<>> => calls[Len(calls)] = ExpectedCall(grid, Len(calls)))
    /\ (pc = "done" =>
           /\ Len(calls) = 3 * NumRuns(grid)
           /\ \A i \in DOMAIN calls : calls[i] = ExpectedCall(grid, i))
    /\ (pc \in {"train_begin"} \cup {"fit", "evaluate", "save_model", "save_history"} =>
           targ.model = model /\ model.args = cfg /\ targ.save_name = save_name)

C7_Witness ==
    /\ pc = "done"
    /\ grid = GridFull
    /\ Len(calls) = 144

----------------------------------------------------------------------------
(* Losses and metrics on data, lines 13-27.  A tensor y is a batch: a     *)
(* sequence of samples, each the flat sequence of 28 * landmark_dim        *)
(* integers.  A mean is kept as numerator and denominator.                 *)

RECURSIVE FlatOf(_)
FlatOf(y) == IF y = <<>> THEN <<>> ELSE Head(y) \o FlatOf(Tail(y))

Mean(n, d) == [num |-> n, den |-> d]

CountTrue(bs) == Cardinality({i \in DOMAIN bs : bs[i]})

\* K.reshape(y, (-1, P, C)), row major; defined when the size divides
Reshapable(y, P, C) == Len(FlatOf(y)) % (P * C) = 0

Reshape(y, P, C) ==
    LET flat == FlatOf(y)
    IN  [b \in 1..(Len(flat) \div (P * C)) |->
            [q \in 1..P |-> [c \in 1..C |-> flat[(b - 1) * P * C + (q - 1) * C + c]]]]

\* lines 13-15: per sample, the mean of (y_pred - y_true)^4
p_norm_loss(y_true, y_pred) ==
    [b \in DOMAIN y_true |->
        Mean(SumSeq([j \in DOMAIN y_true[b] |->
                        (y_pred[b][j] - y_true[b][j]) * (y_pred[b][j] - y_true[b][j])
                        * (y_pred[b][j] - y_true[b][j]) * (y_pred[b][j] - y_true[b][j])]),
             Len(y_true[b]))]

\* lines 26-27: per sample, the mean of d^2 * sigmoid(|d| - 1); a term keeps
\* the square and the argument of the sigmoid
landmark_loss(y_true, y_pred) ==
    [b \in DOMAIN y_true |->
        [terms |-> [j \in DOMAIN y_true[b] |->
                       [square |-> (y_true[b][j] - y_pred[b][j]) * (y_true[b][j] - y_pred[b][j]),
                        sigmoid_of |-> Abs(y_true[b][j] - y_pred[b][j]) - 1]],
         den |-> Len(y_true[b])]]

\* the framework's losses of these names
mean_squared_error(y_true, y_pred) ==
    [b \in DOMAIN y_true |->
        Mean(SumSeq([j \in DOMAIN y_true[b] |->
                        (y_pred[b][j] - y_true[b][j]) * (y_pred[b][j] - y_true[b][j])]),
             Len(y_true[b]))]

mean_absolute_error(y_true, y_pred) ==
    [b \in DOMAIN y_true |->
        Mean(SumSeq([j \in DOMAIN y_true[b] |-> Abs(y_pred[b][j] - y_true[b][j])]),
             Len(y_true[b]))]

\* line 118: a function is used as it is, a name is looked up by the framework
ApplyLoss(sel, y_true, y_pred) ==
    CASE sel.custom /\ sel.fn = "p_norm_loss" -> p_norm_loss(y_true, y_pred)
      [] sel.custom /\ sel.fn = "landmark_loss" -> landmark_loss(y_true, y_pred)
      [] ~sel.custom /\ sel.fn = "mean_squared_error" -> mean_squared_error(y_true, y_pred)
      [] ~sel.custom /\ sel.fn = "mean_absolute_error" -> mean_absolute_error(y_true, y_pred)

\* a variant that counts a distance of exactly 5 as accurate
landmark_accuracy_inclusive(y_true, y_pred) ==
    LET t == Reshape(y_true, NumLandmarks, 2)
        p == Reshape(y_pred, NumLandmarks, 2)
        within == [b \in DOMAIN t |-> [q \in 1..NumLandmarks |->
                      SumSeq([c \in 1..2 |-> Abs(t[b][q][c] - p[b][q][c])]) <= AccThreshold]]
    IN  Mean(CountTrue(FlatOf(within)), Len(FlatOf(within)))

\* lines 17-21
landmark_accuracy(y_true, y_pred) ==
    LET t == Reshape(y_true, NumLandmarks, 2)
        p == Reshape(y_pred, NumLandmarks, 2)
        within == [b \in DOMAIN t |-> [q \in 1..NumLandmarks |->
                      SumSeq([c \in 1..2 |-> Abs(t[b][q][c] - p[b][q][c])]) < AccThreshold]]
    IN  Mean(CountTrue(FlatOf(within)), Len(FlatOf(within)))

\* lines 23-24
landmark_accuracy_5(y_true, y_pred) ==
    LET within == [b \in DOMAIN y_true |-> [j \in DOMAIN y_true[b] |->
                      Abs(y_true[b][j] - y_pred[b][j]) < AccThreshold]]
    IN  Mean(CountTrue(FlatOf(within)), Len(FlatOf(within)))

----------------------------------------------------------------------------
(* The losses and metrics applied to one sample of data whose first       *)
(* VarCoords coordinates vary                                              *)

VarCoords == 3
TrueVals == {0, 2}
PredVals == {0, 3, 7}

Samples(vals, width) ==
    {[j \in 1..width |-> IF j <= VarCoords THEN v[j] ELSE 0] : v \in [1..VarCoords -> vals]}

InitNumeric ==
    /\ grid = GridSource
    /\ idx = FirstIdx
    /\ pc = "numeric"
    /\ cfg = NoCfg
    /\ save_name = ""
    /\ use_early_stopping = TRUE
    /\ model = None
    /\ calls = <<>>
    /\ targ = None
    /\ IdleTrain
    /\ nm = NoNm
    /\ \E dim \in {2, 3}, lf \in Range(LossNames) :
       \E yt \in Samples(TrueVals, NumLandmarks * dim),
          yp \in Samples(PredVals, NumLandmarks * dim) :
          num = [step |-> "data", landmark_dim |-> dim, loss_function |-> lf,
                 y_true |-> <<yt>>, y_pred |-> <<yp>>]

\* the model is built and compiled for the data's dimension and the loss name
NumCompile ==
    /\ pc = "numeric"
    /\ num.step = "data"
    /\ model' = define_network_architecture(num.landmark_dim, TRUE, "non_spatial",
                                            num.loss_function)
    /\ num' = [step |-> "compiled", landmark_dim |-> num.landmark_dim,
               loss_function |-> num.loss_function,
               y_true |-> num.y_true, y_pred |-> num.y_pred]
    /\ UNCHANGED <<grid, idx, pc, cfg, save_name, use_early_stopping, calls,
                   trainVars, nm>>

\* the compiled loss and the two metric functions are applied to the data;
\* landmark_accuracy fails in its reshape when the size is no multiple of 56
NumApply ==
    /\ pc = "numeric"
    /\ num.step = "compiled"
    /\ num' = [step |-> "applied", landmark_dim |-> num.landmark_dim,
               loss_function |-> num.loss_function,
               y_true |-> num.y_true, y_pred |-> num.y_pred,
               loss |-> ApplyLoss(model.loss.output, num.y_true, num.y_pred),
               landmark_accuracy |->
                   IF Reshapable(num.y_true, NumLandmarks, 2)
                   THEN [ok |-> TRUE,
                         value |-> landmark_accuracy(num.y_true, num.y_pred)]
                   ELSE [ok |-> FALSE, value |-> Mean(0, 1)],
               landmark_accuracy_5 |-> landmark_accuracy_5(num.y_true, num.y_pred)]
    /\ UNCHANGED <<gridVars, pc, trainVars, nm>>

NextNumeric ==
    \/ NumCompile
    \/ NumApply

SpecNumeric == InitNumeric /\ [][NextNumeric]_vars

----------------------------------------------------------------------------
(* Properties of the losses and metrics *)

Applied == pc = "numeric" /\ num.step = "applied"

AbsDiff(j) == Abs(num.y_pred[1][j] - num.y_true[1][j])

RECURSIVE Power(_, _)
Power(a, k) == IF k = 0 THEN 1 ELSE a * Power(a, k - 1)

\* the sum of |y_pred - y_true|^k over the first n coordinates of the sample
RECURSIVE SumPow(_, _)
SumPow(k, n) == IF n = 0 THEN 0 ELSE Power(AbsDiff(n), k) + SumPow(k, n - 1)

Width == NumLandmarks * num.landmark_dim

\* C3: each loss name selects the loss it names: 'p_norm_loss' the custom
\* 4th-power loss, 'landmark_loss' the custom sigmoid-weighted loss, and
\* 'mean_squared_error' / 'mean_absolute_error' the framework's loss of
\* that name.
C3_LossSelection ==
    /\ (pc = "numeric" /\ num.step \in {"compiled", "applied"} =>
           LET sel == model.loss.output
               lf == num.loss_function
           IN  /\ DOMAIN model.loss = {"output"}
               /\ sel.fn = lf
               /\ sel.custom <=> lf \in {"p_norm_loss", "landmark_loss"})
    /\ (Applied =>
           LET lf == num.loss_function
               v == num.loss[1]
           IN  /\ Len(num.loss) = 1
               /\ v.den = Width
               /\ (lf = "p_norm_loss" => v.num = SumPow(4, Width))
               /\ (lf = "mean_squared_error" => v.num = SumPow(2, Width))
               /\ (lf = "mean_absolute_error" => v.num = SumPow(1, Width))
               /\ (lf = "landmark_loss" =>
                      /\ Len(v.terms) = Width
                      /\ \A j \in 1..Width :
                            /\ v.terms[j].square = AbsDiff(j) * AbsDiff(j)
                            /\ v.terms[j].sigmoid_of = AbsDiff(j) - 1))

C3_Witness ==
    /\ Applied
    /\ num.loss_function = "p_norm_loss"
    /\ num.loss[1].num = 81 + 2401
    /\ model.loss.output.custom

\* the landmark points (2 coordinates each) of the sample within L1
\* distance 5, and the coordinates within 5
PointsWithin == {q \in 1..NumLandmarks : AbsDiff(2 * q - 1) + AbsDiff(2 * q) < 5}
CoordsWithin == {j \in 1..Width : AbsDiff(j) < 5}

\* the landmark points of landmark_dim coordinates each within L1 distance 5
PointsWithinDim ==
    {q \in 1..NumLandmarks :
        SumSeq([c \in 1..num.landmark_dim |->
                   AbsDiff(num.landmark_dim * (q - 1) + c)]) < 5}

SameFraction(m, n, d) == m.num * d = n * m.den

\* C4 as stated: both metrics reshape the flat outputs into 28 points of
\* landmark_dim coordinates and return the fraction of points whose
\* distance between truth and prediction is below 5.
C4_BothMetricsPerPoint ==
    Applied =>
        /\ num.landmark_accuracy.ok
        /\ SameFraction(num.landmark_accuracy.value, Cardinality(PointsWithinDim),
                        NumLandmarks)
        /\ SameFraction(num.landmark_accuracy_5, Cardinality(PointsWithinDim),
                        NumLandmarks)

\* C4 amended: landmark_accuracy reshapes to 28 points of 2 coordinates,
\* whatever landmark_dim is, and returns the fraction of points whose
\* summed absolute coordinate differences are below 5; it is the only metric
\* compiled in, and only for landmark_dim = 2; on one 84-wide sample its
\* reshape fails.  landmark_accuracy_5 does not reshape: it returns the
\* fraction of coordinates whose absolute difference is below 5.
C4_MetricsAsCoded ==
    /\ (pc = "numeric" /\ num.step \in {"compiled", "applied"} =>
           model.metrics =
               IF num.landmark_dim = 2 THEN <<"landmark_accuracy">> ELSE <<>>)
    /\ (Applied =>
           /\ num.landmark_accuracy.ok <=> num.landmark_dim = 2
           /\ (num.landmark_dim = 2 =>
                  num.landmark_accuracy.value =
                      Mean(Cardinality(PointsWithin), NumLandmarks))
           /\ num.landmark_accuracy_5 = Mean(Cardinality(CoordsWithin), Width))

\* a point both of whose coordinates are within 5 while their sum is not
C4_Witness ==
    /\ Applied
    /\ num.landmark_dim = 2
    /\ AbsDiff(1) = 3 /\ AbsDiff(2) = 3 /\ AbsDiff(3) = 5
    /\ num.landmark_accuracy.value = Mean(26, 28)
    /\ num.landmark_accuracy_5 = Mean(55, 56)

----------------------------------------------------------------------------
(* The save names and file names of two runs, over every configuration    *)
(* the builder distinguishes                                               *)

AllCfgs ==
    [topology : Range(Topologies), use_headpose : BOOLEAN, landmark_dim : {2, 3},
     loss_function : Range(LossNames)]

\* evaluate returns [loss, landmark_accuracy] for 2D and the loss for 3D
ScoresOf(c) ==
    {EvaluateResult(define_network_architecture(c.landmark_dim, c.use_headpose,
                                                c.topology, c.loss_function),
                    loss, <<acc>>) :
        loss \in {ValLoss([plateau |-> 1, tail |-> "flat", dip |-> 0], 1), 0},
        acc \in AccVals}

InitName ==
    /\ grid = GridFull
    /\ idx = FirstIdx
    /\ pc = "names"
    /\ cfg = NoCfg
    /\ save_name = ""
    /\ use_early_stopping = TRUE
    /\ model = None
    /\ calls = <<>>
    /\ targ = None
    /\ IdleTrain
    /\ num = NoNum
    /\ \E a \in AllCfgs, b \in AllCfgs :
       \E sa \in ScoresOf(a), sb \in ScoresOf(b) :
          nm = [step |-> "cfgs", a |-> a, b |-> b, score_a |-> sa, score_b |-> sb]

\* lines 177, 152 and 154 for each of the two runs
NameRuns ==
    /\ pc = "names"
    /\ nm.step = "cfgs"
    /\ LET na == SaveName(nm.a.use_headpose, nm.a.topology, nm.a.landmark_dim,
                          nm.a.loss_function)
           nb == SaveName(nm.b.use_headpose, nm.b.topology, nm.b.landmark_dim,
                          nm.b.loss_function)
       IN  nm' = [step |-> "named", a |-> nm.a, b |-> nm.b,
                  score_a |-> nm.score_a, score_b |-> nm.score_b,
                  name_a |-> na, name_b |-> nb,
                  files_a |-> {ModelFile(na, nm.score_a), HistoryFile(na, nm.score_a)},
                  files_b |-> {ModelFile(nb, nm.score_b), HistoryFile(nb, nm.score_b)}]
    /\ UNCHANGED <<gridVars, pc, trainVars, num>>

NextName == NameRuns

SpecName == InitName /\ [][NextName]_vars

Named == pc = "names" /\ nm.step = "named"

\* C9: two distinct configurations get distinct save names, so the files of
\* one run are never those of another, whatever the scores.
C9_SaveNameInjective ==
    Named /\ nm.a # nm.b =>
        /\ nm.name_a # nm.name_b
        /\ nm.files_a \cap nm.files_b = {}
        /\ Cardinality(nm.files_a \cup nm.files_b) = 4

C9_Witness ==
    /\ Named
    /\ nm.a.topology = nm.b.topology
    /\ nm.a.use_headpose = nm.b.use_headpose
    /\ nm.a.landmark_dim = nm.b.landmark_dim
    /\ nm.a.loss_function = "mean_squared_error"
    /\ nm.b.loss_function = "mean_absolute_error"
    /\ nm.score_a = nm.score_b
    /\ nm.name_a = "TestNet-HeadFalse-double_tower-3D-mean_squared_error"
    /\ nm.files_a \cap nm.files_b = {}

====
